---- MODULE Spec2Model ----
(***************************************************************************)
(* journald-2-cloudwatch (src/main.py): the delivery engine.               *)
(*                                                                         *)
(* One run of CloudWatchClient.upload_journal_logs is modelled as a state  *)
(* machine: the journal reader, the retention filter, itertools.groupby    *)
(* with its one-record lookahead, LogGroupClient.log_messages with the     *)
(* group_messages generator, and the retry loop of _log_messages with the  *)
(* sequence-token cache and the cursor file.  The sink (the boto3 client)  *)
(* and the journal are the environment: every answer the sink can give is  *)
(* a nondeterministic choice.                                              *)
(*                                                                         *)
(* Time is counted in hours.  A record is [pos, ts, g, s]: pos is its      *)
(* __CURSOR (its index in source order), ts its __REALTIME_TIMESTAMP, g    *)
(* and s what Format makes of the group and the stream template for it     *)
(* (NoKey when no alternative of a placeholder resolves).                  *)
(***************************************************************************)
EXTENDS Integers, Sequences, FiniteSets, TLC

VARIABLES
    \* ---- the program's state
    cursorFile,   \* the file at cursor_path: 0 when absent, else a position
    cursor,       \* upload_journal_logs: what load_cursor returned (0: None)
    nextPos,      \* the position the journal reader yields next
    handles,      \* lru_cache of log_group_client: names with a LogGroupClient
    tokens,       \* LogGroupClient.tokens of all handles: <<g, s>> -> token
    pc,           \* where upload_journal_logs is
    curKey,       \* groupby: key of the group being collected
    curRun,       \* groupby: records of the group being collected
    pending,      \* groupby: the record read ahead, first of the next group
    exhausted,    \* the reader raised StopIteration
    rest,         \* group_messages generator: messages still to chunk
    chunk,        \* _log_messages: the batch being submitted
    err,          \* the exception that ended the run ("" when none)
    \* ---- history (written, never read by the program)
    journal,      \* the records read so far, retained or not
    acked,        \* positions whose batch the sink has confirmed
    confirmed,    \* the confirmed put-events calls of this run, in order
    saved,        \* the values save_cursor wrote in this run, in order
    lmCalls,      \* the log_messages calls of this run, in order
    lastEv,       \* the last sink call and its answer
    recovery,     \* how the invalid-token error before the last put was handled
    lookup,       \* <<token>> returned by get_new_seq_token since the last put
    nextTok,      \* stream -> nextSequenceToken of its last put, if it succeeded
    \* ---- LogGroupClient.group_messages on its own
    gmInput,      \* the list given to group_messages
    gmRest,       \* the generator's `messages`
    gmOut,        \* the batches yielded so far
    gmDone,       \* the generator returned
    \* ---- Format (Formatter.get_value) on its own
    fmtIn,        \* the placeholder key, the record, os.environ, the identity doc
    fmtOut        \* <<>> before the call, then <<what Format gave>>

vars == <<cursorFile, cursor, nextPos, handles, tokens, pc, curKey, curRun, pending,
          exhausted, rest, chunk, err, journal, acked, confirmed, saved,
          lmCalls, lastEv, recovery, lookup, nextTok, gmInput, gmRest, gmOut,
          gmDone, fmtIn, fmtOut>>

pipeVars == <<cursorFile, cursor, nextPos, handles, tokens, pc, curKey, curRun, pending,
              exhausted, rest, chunk, err, journal, acked, confirmed, saved,
              lmCalls, lastEv, recovery, lookup, nextTok>>

gmVars == <<gmInput, gmRest, gmOut, gmDone>>

fmtVars == <<fmtIn, fmtOut>>

(***************************************************************************)
(* Bounds of the model.                                                    *)
(***************************************************************************)
MaxRecords == 3      \* records the reader yields in one run
Now == 400           \* datetime.now(), in hours
GMShortLen == 3      \* group_messages inputs over all of GMTimes
GMLongLen == 11      \* group_messages inputs over GMLongTimes (reach maxlen)
GMMaxOld == 4        \* group_messages inputs of old records, then new ones:
GMMaxNew == 15       \*   how many of each at most

(***************************************************************************)
(* Program constants.                                                      *)
(***************************************************************************)
OLDEST_LOG_RETENTION == 336   \* timedelta(days=14)
maxlen == 10
timespan == 23                \* timedelta(hours=23)

ALREADY_EXISTS == "ResourceAlreadyExistsException"
THROTTLED == "ThrottlingException"
OPERATION_ABORTED == "OperationAbortedException"
INVALID_TOKEN == "InvalidSequenceTokenException"
OTHER_ERROR == "other error"
OK == "ok"

None == "None"                \* Python's None: the absent token
NoKey == "KeyError"           \* Format found no alternative that resolves
Tokens == {"T1", "T2"}

Min(a, b) == IF a < b THEN a ELSE b

(***************************************************************************)
(* The environment's alphabets.                                            *)
(***************************************************************************)
\* What the cursor file holds when a run starts: 0 (no file) or the
\* position an earlier run saved.
StartCursors == {0, 1}

\* What Format gives for the two templates of a record.
Routes == {<<"g1", "s1">>, <<"g1", "s2">>, <<"g2", "s1">>,
           <<NoKey, "s1">>, <<"g2", NoKey>>}

\* The entries the journal can hold, <<timestamp, route>>: entries one day
\* old and entries of this hour with every route, an entry exactly 14 days
\* old that would make a new group, and an older one that cannot be routed
\* at all.
Entries == ({Now - 24, Now} \X Routes)
               \cup {<<Now - OLDEST_LOG_RETENTION, <<"g2", "s1">>>>,
                     <<Now - OLDEST_LOG_RETENTION - 1, <<NoKey, "s1">>>>}

Message(pos, entry) ==
    [pos |-> pos, ts |-> entry[1], g |-> entry[2][1], s |-> entry[2][2]]

\* Error messages of an InvalidSequenceTokenException, as words.
MsgExpected(t) == <<"The", "given", "sequenceToken", "is", "invalid.", "The",
                    "next", "expected", "sequenceToken", "is:", t>>
MsgUnparsable == <<"The", "given", "sequenceToken", "is", "invalid.">>
MsgShort(t) == <<"sequenceToken:", t>>
InvalidMessages ==
    {MsgExpected("T2"), MsgExpected("null"), MsgShort("T1"), MsgUnparsable}

NoMsg == <<>>

\* Error codes a sink operation can answer with.  Invalid-token is the
\* answer to a submission with the wrong token: only put-events gives it.
CommonErrors == {THROTTLED, OPERATION_ABORTED, OTHER_ERROR}
PutErrors == CommonErrors \cup {INVALID_TOKEN}

\* A sink call: the operation, the stream (or group) it names, the
\* sequenceToken argument and the positions of the events of a put, the
\* answer and its message, the logStreams of a describe_log_streams
\* answer, and the time.sleep calls the handling of the answer made.
NoEv == [op |-> "none", dest |-> <<>>, kwargs |-> <<>>, batch |-> <<>>,
         res |-> OK, msg |-> NoMsg, streams |-> <<>>, sleep |-> 0]

Ev(op, dest, kwargs, batch, res, msg, sleep) ==
    [op |-> op, dest |-> dest, kwargs |-> kwargs, batch |-> batch,
     res |-> res, msg |-> msg, streams |-> <<>>, sleep |-> sleep]

Positions(msgs) == [i \in 1..Len(msgs) |-> msgs[i].pos]

(***************************************************************************)
(* CloudWatchClient.retain_message                                         *)
(***************************************************************************)
\* (mutant) a record exactly as old as the retention is kept
RetainsBoundary(message) == (Now - message.ts) <= OLDEST_LOG_RETENTION

retain_message(message) == (Now - message.ts) < OLDEST_LOG_RETENTION

(***************************************************************************)
(* CloudWatchClient.group_messages: the groupby key of a record.           *)
(***************************************************************************)
KeyOf(message) == <<message.g, message.s>>

\* (mutant) a template that does not resolve is not noticed
UnresolvedIgnored(value) == FALSE

\* Format raised KeyError: no alternative of a placeholder resolved
Unresolved(value) == value = NoKey

\* (mutant) keys compared by their group alone
SameKeyByGroup(k1, k2) == k1[1] = k2[1]

\* groupby compares tgtkey and currkey with ==.
SameKey(k1, k2) == k1 = k2

(***************************************************************************)
(* LogGroupClient.group_messages, one turn of its while loop.              *)
(***************************************************************************)
\* itertools.takewhile: length of the longest prefix whose records all have
\* m.ts - start_date < timespan.
TakeWhileLen(messages) ==
    LET start_date == messages[1].ts
        Keeps(i) == messages[i].ts - start_date < timespan
    IN  CHOOSE k \in 0..Len(messages) :
            /\ \A i \in 1..k : Keeps(i)
            /\ (k = Len(messages) \/ ~Keeps(k + 1))

\* (mutant) the cap is applied one record early
GroupShortByOne(messages) ==
    SubSeq(messages, 1, Min(TakeWhileLen(messages), maxlen - 1))

\* group = list(islice(takewhile(...), maxlen))
Group(messages) == SubSeq(messages, 1, Min(TakeWhileLen(messages), maxlen))

\* (mutant) messages = messages[len(group) + 1:]
RemainingSkipsOne(messages, group) ==
    SubSeq(messages, Len(group) + 2, Len(messages))

\* (mutant) messages = messages[len(group) - 1:]
RemainingOverlaps(messages, group) ==
    SubSeq(messages, Len(group), Len(messages))

\* messages = messages[len(group):]
Remaining(messages, group) == SubSeq(messages, Len(group) + 1, Len(messages))

(***************************************************************************)
(* NEXT_TOKEN_REGEX = 'sequenceToken(\sis)?: (\S+)', searched in a message *)
(* given as its words: <<>> when nothing matches, else <<group(2)>> of the *)
(* leftmost match.                                                         *)
(***************************************************************************)
MatchAt(msg, i) ==
    IF msg[i] = "sequenceToken:" /\ i + 1 <= Len(msg) THEN <<msg[i + 1]>>
    ELSE IF /\ msg[i] = "sequenceToken"
            /\ i + 2 <= Len(msg)
            /\ msg[i + 1] = "is:" THEN <<msg[i + 2]>>
    ELSE <<>>

RegexSearch(msg) ==
    LET hits == {i \in 1..Len(msg) : MatchAt(msg, i) # <<>>}
    IN  IF hits = {} THEN <<>>
        ELSE MatchAt(msg, CHOOSE i \in hits : \A j \in hits : i <= j)

\* (mutant) the literal 'null' is kept as a token
ParsedTokenKeepsNull(word) == word

\* self.tokens[log_stream] = (None if match.group(2) == 'null' else match.group(2))
ParsedToken(word) == IF word = "null" THEN None ELSE word

(***************************************************************************)
(* CloudWatchClient.put_log_messages                                       *)
(***************************************************************************)
\* kwargs = (dict(sequenceToken=seq_token) if seq_token else {})
PutKwargs(seq_token) == IF seq_token = None THEN <<>> ELSE <<seq_token>>

\* (mutant) the cursor is saved before put_log_events is called
CursorSavedBeforePut(res, messages, old) == messages[Len(messages)].pos

\* (mutant) the cursor of the first record is saved
CursorOfFirst(res, messages, old) ==
    IF res = OK THEN messages[1].pos ELSE old

\* self.save_cursor(messages[-1]['__CURSOR']) once put_log_events returned;
\* an exception of put_log_events leaves the file alone.
CursorAfterPut(res, messages, old) ==
    IF res = OK THEN messages[Len(messages)].pos ELSE old

(***************************************************************************)
(* _log_messages: the except clause.                                       *)
(***************************************************************************)
\* (mutant) every error is retried
RaisesNothing(code) == FALSE

\* else: raise
\* (mutant) an aborted operation is not retried
RaisesWhenAborted(code) == code \notin {THROTTLED, INVALID_TOKEN}

Raises(code) == code \notin {THROTTLED, OPERATION_ABORTED, INVALID_TOKEN}

\* (mutant) every retried error is followed by time.sleep(1)
SleepsOnEveryRetry(code) == 1

\* time.sleep(1) calls made for this error
Sleeps(code) == IF code = THROTTLED THEN 1 ELSE 0

\* The token cache after the except clause handled `code` for stream `key`;
\* popping a missing entry raises KeyError (HandlerKeyError).
HandlerKeyError(code, msg, key, toks) ==
    /\ code = INVALID_TOKEN
    /\ RegexSearch(msg) = <<>>
    /\ key \notin DOMAIN toks

\* (mutant) an unparsable message leaves the cache entry in place
TokensAfterErrorKeepsEntry(code, msg, key, toks) ==
    IF code # INVALID_TOKEN \/ RegexSearch(msg) = <<>> THEN toks
    ELSE [k \in DOMAIN toks \cup {key} |->
             IF k = key THEN ParsedToken(RegexSearch(msg)[1]) ELSE toks[k]]

\* (mutant) a throttled or aborted attempt forgets the stream's token
TokensAfterErrorForgetsOnRetry(code, msg, key, toks) ==
    IF code \in {THROTTLED, OPERATION_ABORTED}
    THEN [k \in DOMAIN toks \ {key} |-> toks[k]]
    ELSE IF code # INVALID_TOKEN THEN toks
    ELSE IF RegexSearch(msg) # <<>>
         THEN [k \in DOMAIN toks \cup {key} |->
                  IF k = key THEN ParsedToken(RegexSearch(msg)[1]) ELSE toks[k]]
         ELSE [k \in DOMAIN toks \ {key} |-> toks[k]]

TokensAfterError(code, msg, key, toks) ==
    IF code # INVALID_TOKEN THEN toks
    ELSE IF RegexSearch(msg) # <<>>
         THEN [k \in DOMAIN toks \cup {key} |->
                  IF k = key THEN ParsedToken(RegexSearch(msg)[1]) ELSE toks[k]]
         ELSE [k \in DOMAIN toks \ {key} |-> toks[k]]

\* self.tokens[log_stream] = value
SetToken(toks, key, value) ==
    [k \in DOMAIN toks \cup {key} |-> IF k = key THEN value ELSE toks[k]]

\* (mutant) the cache keeps the token the batch was submitted with
TokensAfterPutKeepsOld(toks, key, result) == toks

\* self.tokens[log_stream] = result['nextSequenceToken']
TokensAfterPut(toks, key, result) == SetToken(toks, key, result)

\* (mutant) an entry holding None counts as no entry
CachedUnlessNone(toks, key) == key \in DOMAIN toks /\ toks[key] # None

\* get_seq_token: self.tokens[log_stream] does not raise KeyError
Cached(toks, key) == key \in DOMAIN toks

(***************************************************************************)
(* create_log_group, create_log_stream: the error code that is ignored.    *)
(***************************************************************************)
\* (mutant) no error of a create call is ignored
SwallowsNothing(code) == FALSE

\* if e.response['Error']['Code'] != self.ALREADY_EXISTS: raise
Swallowed(code) == code = ALREADY_EXISTS

(***************************************************************************)
(* CloudWatchClient.log_group_client, under lru_cache(None).               *)
(***************************************************************************)
\* (mutant) no cache: every call makes a LogGroupClient
CacheMissAlways(name, cached) == TRUE

\* the cache holds no LogGroupClient for this name
CacheMiss(name, cached) == name \notin cached

\* LogGroupClient.__init__: self.tokens = {} for the handle of this group
FreshTokens(toks, group) ==
    [k \in {d \in DOMAIN toks : d[1] # group} |-> toks[k]]

\* What put_log_events can answer: <<code, nextSequenceToken, message>>.
PutAnswers ==
    {<<OK, t, NoMsg>> : t \in Tokens}
        \cup {<<code, None, NoMsg>> : code \in CommonErrors}
        \cup {<<INVALID_TOKEN, None, m>> : m \in InvalidMessages}

NoTokens == [k \in {} |-> None]

(***************************************************************************)
(* LogGroupClient.get_new_seq_token: what describe_log_streams can answer  *)
(* for limit=1, and the token found in the answer (<<>>: no such stream,   *)
(* create it).                                                             *)
(***************************************************************************)
DescribeResponses(log_stream) ==
    {<<>>, <<[name |-> "blargh", tok |-> "T1"]>>}
        \cup {<<[name |-> log_stream, tok |-> t]>> : t \in {None, "T1"}}

\* (mutant) the first stream of the answer is taken, whatever its name
FoundTokenOfAnyStream(streams, log_stream) ==
    IF streams # <<>> THEN <<streams[1].tok>> ELSE <<>>

\* stream.get('uploadSequenceToken') of an exact match
FoundToken(streams, log_stream) ==
    IF streams # <<>> /\ streams[1].name = log_stream
    THEN <<streams[1].tok>>
    ELSE <<>>

(***************************************************************************)
(* upload_journal_logs: where the reader stands after the seek.            *)
(***************************************************************************)
\* reader.seek_cursor(cursor): the next entry read is the entry at the
\* cursor.  reader.seek_realtime(now - 14 days): the first entry kept.
SeekPosition(c) == IF c # 0 THEN c ELSE 1

(***************************************************************************)
(* Initial state: a CloudWatchClient has been constructed; the cursor file *)
(* is absent or was left by an earlier run, whose put_log_messages wrote   *)
(* it after the sink confirmed the batch ending there.                     *)
(***************************************************************************)
GMIdle ==
    /\ gmInput = <<>>
    /\ gmRest = <<>>
    /\ gmOut = <<>>
    /\ gmDone = TRUE

\* Format is not being called
NoFmt == [key |-> <<>>, kwargs |-> <<>>, environ |-> <<>>, doc |-> <<>>]

FmtIdle ==
    /\ fmtIn = NoFmt
    /\ fmtOut = <<>>

Init ==
    /\ cursorFile \in StartCursors
    /\ cursor = 0
    /\ nextPos = 0
    /\ handles = {}
    /\ tokens = NoTokens
    /\ pc = "start"
    /\ curKey = <<>>
    /\ curRun = <<>>
    /\ pending = <<>>
    /\ exhausted = FALSE
    /\ rest = <<>>
    /\ chunk = <<>>
    /\ err = ""
    /\ journal = <<>>
    /\ acked = IF cursorFile = 0 THEN {} ELSE {cursorFile}
    /\ confirmed = <<>>
    /\ saved = <<>>
    /\ lmCalls = <<>>
    /\ lastEv = NoEv
    /\ recovery = "none"
    /\ lookup = <<>>
    /\ nextTok = NoTokens
    /\ GMIdle
    /\ FmtIdle

(***************************************************************************)
(* upload_journal_logs, lines 162-168: load the cursor and seek.           *)
(***************************************************************************)
Seek ==
    /\ pc = "start"
    /\ cursor' = cursorFile
    /\ nextPos' = SeekPosition(cursorFile)
    /\ pc' = "read"
    /\ UNCHANGED <<cursorFile, handles, tokens, curKey, curRun, pending,
                   exhausted, rest, chunk, err, journal, acked, confirmed,
                   saved, lmCalls, lastEv, recovery, lookup, nextTok>>
    /\ UNCHANGED gmVars
    /\ UNCHANGED fmtVars

(***************************************************************************)
(* (mutant) the key of a record is computed before the filter sees it: a   *)
(* dropped record has its group resolved.                                  *)
(***************************************************************************)
ReadDroppedResolves ==
    /\ pc = "read"
    /\ Len(journal) < MaxRecords
    /\ \E entry \in Entries :
         LET msg == Message(nextPos, entry)
         IN  /\ ~retain_message(msg)
             /\ journal' = Append(journal, msg)
             /\ handles' = handles \cup ({msg.g} \ {NoKey})
    /\ nextPos' = nextPos + 1
    /\ UNCHANGED <<cursorFile, cursor, tokens, pc, curKey, curRun,
                   pending, exhausted, rest, chunk, err, acked, confirmed,
                   saved, lmCalls, lastEv, recovery, lookup, nextTok>>
    /\ UNCHANGED gmVars
    /\ UNCHANGED fmtVars

(***************************************************************************)
(* The reader yields a record that filter(retain_message, reader) drops.   *)
(***************************************************************************)
ReadDropped ==
    /\ pc = "read"
    /\ Len(journal) < MaxRecords
    /\ \E entry \in Entries :
         LET msg == Message(nextPos, entry)
         IN  /\ ~retain_message(msg)
             /\ journal' = Append(journal, msg)
    /\ nextPos' = nextPos + 1
    /\ UNCHANGED <<cursorFile, cursor, handles, tokens, pc, curKey, curRun,
                   pending, exhausted, rest, chunk, err, acked, confirmed,
                   saved, lmCalls, lastEv, recovery, lookup, nextTok>>
    /\ UNCHANGED gmVars
    /\ UNCHANGED fmtVars

(***************************************************************************)
(* The reader yields a retained record and groupby computes its key with   *)
(* CloudWatchClient.group_messages: Format of the group template, the      *)
(* cached log_group_client (LogGroupClient.__init__ calls create_log_group *)
(* for a new name), Format of the stream template.  A record with the key  *)
(* of the group being collected joins it; another key ends the group, and  *)
(* the record waits as the first of the next one.                          *)
(***************************************************************************)
ReadRouted ==
    /\ pc = "read"
    /\ Len(journal) < MaxRecords
    /\ \E entry \in Entries, cg \in {OK, ALREADY_EXISTS} \cup CommonErrors :
         LET msg == Message(nextPos, entry)
             isNew == ~Unresolved(msg.g) /\ CacheMiss(msg.g, handles)
             created == cg = OK \/ Swallowed(cg)
         IN  /\ retain_message(msg)
             /\ (~isNew => cg = OK)
             /\ journal' = Append(journal, msg)
             /\ lastEv' = IF isNew
                          THEN Ev("create_log_group", <<msg.g>>, <<>>, <<>>, cg, NoMsg, 0)
                          ELSE lastEv
             /\ handles' = IF isNew /\ created THEN handles \cup {msg.g} ELSE handles
             /\ tokens' = IF isNew /\ created THEN FreshTokens(tokens, msg.g)
                          ELSE tokens
             /\ IF Unresolved(msg.g) \/ (created /\ Unresolved(msg.s))
                THEN /\ pc' = "failed"
                     /\ err' = NoKey
                     /\ UNCHANGED <<curKey, curRun, pending>>
                ELSE IF ~created
                THEN /\ pc' = "failed"
                     /\ err' = cg
                     /\ UNCHANGED <<curKey, curRun, pending>>
                ELSE IF curRun = <<>> \/ SameKey(KeyOf(msg), curKey)
                THEN /\ curRun' = Append(curRun, msg)
                     /\ curKey' = KeyOf(msg)
                     /\ UNCHANGED <<pc, err, pending>>
                ELSE /\ pending' = <<msg>>
                     /\ pc' = "log"
                     /\ UNCHANGED <<err, curKey, curRun>>
    /\ nextPos' = nextPos + 1
    /\ UNCHANGED <<cursorFile, cursor, exhausted, rest, chunk, acked,
                   confirmed, saved, lmCalls, recovery, lookup, nextTok>>
    /\ UNCHANGED gmVars
    /\ UNCHANGED fmtVars

(***************************************************************************)
(* The reader has no further entry: StopIteration ends the group being     *)
(* collected, or the for loop when there is none.                          *)
(***************************************************************************)
ReadEnd ==
    /\ pc = "read"
    /\ exhausted' = TRUE
    /\ pc' = IF curRun = <<>> THEN "done" ELSE "log"
    /\ UNCHANGED <<cursorFile, cursor, nextPos, handles, tokens, curKey, curRun,
                   pending, rest, chunk, err, journal, acked, confirmed, saved,
                   lmCalls, lastEv, recovery, lookup, nextTok>>
    /\ UNCHANGED gmVars
    /\ UNCHANGED fmtVars

(***************************************************************************)
(* group.log_messages(stream, list(messages))                              *)
(***************************************************************************)
LogMessages ==
    /\ pc = "log"
    /\ lmCalls' = Append(lmCalls, [dest |-> curKey, recs |-> Positions(curRun)])
    /\ rest' = curRun
    /\ pc' = "chunks"
    /\ UNCHANGED <<cursorFile, cursor, nextPos, handles, tokens, curKey, curRun,
                   pending, exhausted, chunk, err, journal, acked, confirmed,
                   saved, lastEv, recovery, lookup, nextTok>>
    /\ UNCHANGED gmVars
    /\ UNCHANGED fmtVars

(***************************************************************************)
(* log_messages asks the group_messages generator for the next chunk; when *)
(* it has none the for loop of upload_journal_logs takes the next group.   *)
(***************************************************************************)
NextChunk ==
    /\ pc = "chunks"
    /\ IF rest # <<>>
       THEN /\ chunk' = Group(rest)
            /\ pc' = "loop"
            /\ UNCHANGED <<curKey, curRun, pending>>
       ELSE /\ chunk' = <<>>
            /\ curRun' = pending
            /\ curKey' = IF pending # <<>> THEN KeyOf(pending[1]) ELSE <<>>
            /\ pending' = <<>>
            /\ pc' = IF pending # <<>> THEN "read" ELSE "done"
    /\ recovery' = "none"
    /\ UNCHANGED <<cursorFile, cursor, nextPos, handles, tokens, exhausted,
                   rest, err, journal, acked, confirmed, saved, lmCalls, lastEv,
                   lookup, nextTok>>
    /\ UNCHANGED gmVars
    /\ UNCHANGED fmtVars

(***************************************************************************)
(* _log_messages, the except clause applied to an error `code` raised      *)
(* inside the try block (by get_seq_token or by put_log_messages).         *)
(***************************************************************************)
Except(code, msg) ==
    IF Raises(code)
    THEN /\ pc' = "failed"
         /\ err' = code
         /\ UNCHANGED tokens
    ELSE IF HandlerKeyError(code, msg, curKey, tokens)
    THEN /\ pc' = "failed"
         /\ err' = "KeyError"
         /\ UNCHANGED tokens
    ELSE /\ pc' = "loop"
         /\ tokens' = TokensAfterError(code, msg, curKey, tokens)
         /\ UNCHANGED err

(***************************************************************************)
(* get_seq_token misses the cache: get_new_seq_token calls                 *)
(* describe_log_streams, and returns the token of the stream it finds.     *)
(***************************************************************************)
Describe ==
    /\ pc = "loop"
    /\ ~Cached(tokens, curKey)
    /\ \/ \E streams \in DescribeResponses(curKey[2]) :
            LET found == FoundToken(streams, curKey[2])
            IN  /\ lastEv' = [Ev("describe_log_streams", curKey, <<>>, <<>>, OK,
                                 NoMsg, 0) EXCEPT !.streams = streams]
                /\ IF found # <<>>
                   THEN /\ lookup' = found
                        /\ pc' = "assign"
                   ELSE /\ pc' = "create_stream"
                        /\ UNCHANGED lookup
                /\ UNCHANGED <<tokens, err>>
       \/ \E code \in CommonErrors :
            /\ lastEv' = Ev("describe_log_streams", curKey, <<>>, <<>>, code,
                            NoMsg, Sleeps(code))
            /\ Except(code, NoMsg)
            /\ UNCHANGED lookup
    /\ UNCHANGED <<cursorFile, cursor, nextPos, handles, curKey, curRun, pending,
                   exhausted, rest, chunk, journal, acked, confirmed, saved,
                   lmCalls, recovery, nextTok>>
    /\ UNCHANGED gmVars
    /\ UNCHANGED fmtVars

(***************************************************************************)
(* get_new_seq_token found no stream of that name: create_log_stream, and  *)
(* get_new_seq_token returns None.                                         *)
(***************************************************************************)
CreateStream ==
    /\ pc = "create_stream"
    /\ \E code \in {OK, ALREADY_EXISTS} \cup CommonErrors :
         /\ lastEv' = Ev("create_log_stream", curKey, <<>>, <<>>, code, NoMsg,
                         IF code = OK \/ Swallowed(code) THEN 0 ELSE Sleeps(code))
         /\ IF code = OK \/ Swallowed(code)
            THEN /\ lookup' = <<None>>
                 /\ pc' = "assign"
                 /\ UNCHANGED <<tokens, err>>
            ELSE /\ Except(code, NoMsg)
                 /\ UNCHANGED lookup
    /\ UNCHANGED <<cursorFile, cursor, nextPos, handles, curKey, curRun, pending,
                   exhausted, rest, chunk, journal, acked, confirmed, saved,
                   lmCalls, recovery, nextTok>>
    /\ UNCHANGED gmVars
    /\ UNCHANGED fmtVars

(***************************************************************************)
(* get_seq_token, line 262: the token get_new_seq_token returned is        *)
(* cached; the try block goes on to put_log_messages.                      *)
(***************************************************************************)
CacheToken ==
    /\ pc = "assign"
    /\ tokens' = SetToken(tokens, curKey, lookup[1])
    /\ pc' = "loop"
    /\ UNCHANGED <<cursorFile, cursor, nextPos, handles, curKey, curRun, pending,
                   exhausted, rest, chunk, err, journal, acked, confirmed, saved,
                   lmCalls, lastEv, recovery, lookup, nextTok>>
    /\ UNCHANGED gmVars
    /\ UNCHANGED fmtVars

(***************************************************************************)
(* get_seq_token hits the cache and put_log_messages submits the chunk:    *)
(* put_log_events, then save_cursor; after the loop the token cache takes  *)
(* the response's nextSequenceToken.                                       *)
(***************************************************************************)
Put ==
    /\ pc = "loop"
    /\ Cached(tokens, curKey)
    /\ \E answer \in PutAnswers :
         LET code == answer[1]
             next == answer[2]
             msg == answer[3]
         IN
         /\ lastEv' = Ev("put_log_events", curKey, PutKwargs(tokens[curKey]),
                         Positions(chunk), code, msg,
                         IF code = OK THEN 0 ELSE Sleeps(code))
         /\ cursorFile' = CursorAfterPut(code, chunk, cursorFile)
         /\ IF code = OK
            THEN /\ tokens' = TokensAfterPut(tokens, curKey, next)
                 /\ nextTok' = SetToken(nextTok, curKey, next)
                 /\ confirmed' = Append(confirmed,
                                    [dest |-> curKey, recs |-> Positions(chunk)])
                 /\ saved' = Append(saved, cursorFile')
                 /\ acked' = acked \cup {chunk[i].pos : i \in 1..Len(chunk)}
                 /\ rest' = Remaining(rest, chunk)
                 /\ chunk' = <<>>
                 /\ pc' = "chunks"
                 /\ UNCHANGED recovery
                 /\ UNCHANGED err
            ELSE /\ Except(code, msg)
                 /\ recovery' = IF code # INVALID_TOKEN THEN "none"
                                ELSE IF RegexSearch(msg) = <<>> THEN "evicted"
                                ELSE "parsed"
                 /\ nextTok' = [k \in DOMAIN nextTok \ {curKey} |-> nextTok[k]]
                 /\ UNCHANGED <<confirmed, saved, acked, rest, chunk>>
    /\ lookup' = <<>>
    /\ UNCHANGED <<cursor, nextPos, handles, curKey, curRun, pending, exhausted,
                   journal, lmCalls>>
    /\ UNCHANGED gmVars
    /\ UNCHANGED fmtVars

Next ==
    \/ Seek
    \/ ReadDropped
    \/ ReadRouted
    \/ ReadEnd
    \/ LogMessages
    \/ NextChunk
    \/ Describe
    \/ CreateStream
    \/ CacheToken
    \/ Put

Spec == Init /\ [][Next]_vars

(***************************************************************************)
(* The except clause of _log_messages looks at the code of any ClientError *)
(* raised in the try block, whichever call raised it.  SpecAdv lets        *)
(* describe_log_streams and create_log_stream, called from get_seq_token,  *)
(* answer with the invalid-token code as well.                             *)
(***************************************************************************)
DescribeInvalid ==
    /\ pc = "loop"
    /\ ~Cached(tokens, curKey)
    /\ \E msg \in InvalidMessages :
         /\ lastEv' = Ev("describe_log_streams", curKey, <<>>, <<>>,
                         INVALID_TOKEN, msg, Sleeps(INVALID_TOKEN))
         /\ Except(INVALID_TOKEN, msg)
    /\ UNCHANGED <<cursorFile, cursor, nextPos, handles, curKey, curRun, pending,
                   exhausted, rest, chunk, journal, acked, confirmed, saved,
                   lmCalls, recovery, lookup, nextTok>>
    /\ UNCHANGED gmVars
    /\ UNCHANGED fmtVars

CreateStreamInvalid ==
    /\ pc = "create_stream"
    /\ \E msg \in InvalidMessages :
         /\ lastEv' = Ev("create_log_stream", curKey, <<>>, <<>>,
                         INVALID_TOKEN, msg, Sleeps(INVALID_TOKEN))
         /\ Except(INVALID_TOKEN, msg)
    /\ UNCHANGED <<cursorFile, cursor, nextPos, handles, curKey, curRun, pending,
                   exhausted, rest, chunk, journal, acked, confirmed, saved,
                   lmCalls, recovery, lookup, nextTok>>
    /\ UNCHANGED gmVars
    /\ UNCHANGED fmtVars

NextAdv ==
    \/ Next
    \/ DescribeInvalid
    \/ CreateStreamInvalid

SpecAdv == Init /\ [][NextAdv]_vars

\* The flow is one thread and every sink call is synchronous and answers:
\* while a step is possible, one is taken.
SpecLive == Init /\ [][Next]_vars /\ WF_vars(Next)

(***************************************************************************)
(* LogGroupClient.group_messages on its own: the generator is given a list *)
(* of records and asked for its batches one at a time.                     *)
(***************************************************************************)
GMTimes == {0, 22, 23, 46}
GMLongTimes == {0, 23}

\* Records number i of a list carries position i.
GMMessages(times) == [i \in 1..Len(times) |-> [pos |-> i, ts |-> times[i]]]

\* a records 14 days old followed by b records of this hour
GMBlock(a, b) ==
    GMMessages([i \in 1..(a + b) |->
                   IF i <= a THEN Now - OLDEST_LOG_RETENTION ELSE Now])

GMInputs ==
    {GMMessages(t) : t \in UNION {[1..n -> GMTimes] : n \in 0..GMShortLen}}
        \cup {GMMessages(t) : t \in UNION {[1..n -> GMLongTimes] : n \in 0..GMLongLen}}
        \cup {GMBlock(a, b) : a \in 0..GMMaxOld, b \in 0..GMMaxNew}

PipeIdle ==
    /\ cursorFile = 0
    /\ cursor = 0
    /\ nextPos = 0
    /\ handles = {}
    /\ tokens = NoTokens
    /\ pc = "off"
    /\ curKey = <<>>
    /\ curRun = <<>>
    /\ pending = <<>>
    /\ exhausted = FALSE
    /\ rest = <<>>
    /\ chunk = <<>>
    /\ err = ""
    /\ journal = <<>>
    /\ acked = {}
    /\ confirmed = <<>>
    /\ saved = <<>>
    /\ lmCalls = <<>>
    /\ lastEv = NoEv
    /\ recovery = "none"
    /\ lookup = <<>>
    /\ nextTok = NoTokens

GMInit ==
    /\ PipeIdle
    /\ FmtIdle
    /\ gmInput \in GMInputs
    /\ gmRest = gmInput
    /\ gmOut = <<>>
    /\ gmDone = FALSE

\* while messages: ... yield group; messages = messages[len(group):]
GMYield ==
    /\ ~gmDone
    /\ gmRest # <<>>
    /\ gmOut' = Append(gmOut, Group(gmRest))
    /\ gmRest' = Remaining(gmRest, Group(gmRest))
    /\ UNCHANGED <<gmInput, gmDone>>
    /\ UNCHANGED pipeVars
    /\ UNCHANGED fmtVars

\* `while messages` is false: the generator returns.
GMReturn ==
    /\ ~gmDone
    /\ gmRest = <<>>
    /\ gmDone' = TRUE
    /\ UNCHANGED <<gmInput, gmRest, gmOut>>
    /\ UNCHANGED pipeVars
    /\ UNCHANGED fmtVars

GMNext ==
    \/ GMYield
    \/ GMReturn

SpecGM == GMInit /\ [][GMNext]_vars

(***************************************************************************)
(* Formatter.get_value and Format on their own.  A string is the sequence  *)
(* of its symbols: the characters | ' " $ @ . each on their own, and words *)
(* that hold none of them.  A value is a string or an integer.  Field      *)
(* names of a record hold no '|'.                                          *)
(***************************************************************************)
StrVal(str) == [t |-> "str", v |-> str]
IntVal(n) == [t |-> "int", v |-> n]

\* Index of the first / last occurrence of a symbol, 0 when there is none.
FirstIndex(str, sym) ==
    LET at == {i \in 1..Len(str) : str[i] = sym}
    IN  IF at = {} THEN 0 ELSE CHOOSE i \in at : \A j \in at : i <= j

LastIndex(str, sym) ==
    LET at == {i \in 1..Len(str) : str[i] = sym}
    IN  IF at = {} THEN 0 ELSE CHOOSE i \in at : \A j \in at : j <= i

\* key.split('|')
RECURSIVE Split(_)
Split(str) ==
    LET bar == FirstIndex(str, "|")
    IN  IF bar = 0 THEN <<str>>
        ELSE <<SubSeq(str, 1, bar - 1)>> \o Split(SubSeq(str, bar + 1, Len(str)))

\* normalise_unit: sshd@127.0.0.1:12345.service -> sshd.service
normalise_unit(unit) ==
    IF FirstIndex(unit, "@") # 0
    THEN SubSeq(unit, 1, FirstIndex(unit, "@") - 1) \o <<".">>
            \o SubSeq(unit, LastIndex(unit, ".") + 1, Len(unit))
    ELSE unit

\* (mutant) a lone quote character counts as an empty literal
IsLiteralOfAnyLength(i) ==
    /\ Len(i) > 0
    /\ (i[1] = "\"" \/ i[1] = "'")
    /\ i[1] = i[Len(i)]

\* len(i) > 1 and (i[0] == '"' or i[0] == "'") and i[0] == i[-1]
IsLiteral(i) ==
    /\ Len(i) > 1
    /\ (i[1] = "\"" \/ i[1] = "'")
    /\ i[1] = i[Len(i)]

DOCKER_SERVICE == <<"docker", ".", "service">>
F_USER_UNIT == <<"USER_UNIT">>
F_SYSTEMD_UNIT == <<"_SYSTEMD_UNIT">>
F_CONTAINER_NAME == <<"CONTAINER_NAME">>

\* The special key $k: the identity document, the journald variables, the
\* environment; <<>> when none of them gives a value.
SpecialValue(k, kwargs, environ, doc) ==
    IF k \in DOMAIN doc THEN <<doc[k]>>
    ELSE IF k = <<"unit">> /\ F_USER_UNIT \in DOMAIN kwargs
    THEN <<StrVal(normalise_unit(kwargs[F_USER_UNIT].v))>>
    ELSE IF k = <<"unit">> /\ F_SYSTEMD_UNIT \in DOMAIN kwargs
    THEN <<StrVal(normalise_unit(kwargs[F_SYSTEMD_UNIT].v))>>
    ELSE IF /\ k = <<"docker_container">>
            /\ F_CONTAINER_NAME \in DOMAIN kwargs
            /\ F_SYSTEMD_UNIT \in DOMAIN kwargs
            /\ kwargs[F_SYSTEMD_UNIT] = StrVal(DOCKER_SERVICE)
    THEN <<StrVal(kwargs[F_CONTAINER_NAME].v \o <<".", "container">>)>>
    ELSE IF k \in DOMAIN environ THEN <<environ[k]>>
    ELSE <<>>

\* One turn of `for i in key.split('|')`: <<the value returned>>, or <<>>
\* when the loop goes on to the next alternative.
Alternative(i, kwargs, environ, doc) ==
    IF IsLiteral(i) THEN <<StrVal(SubSeq(i, 2, Len(i) - 1))>>
    ELSE IF /\ Len(i) > 0
            /\ i[1] = "$"
            /\ SpecialValue(Tail(i), kwargs, environ, doc) # <<>>
    THEN SpecialValue(Tail(i), kwargs, environ, doc)
    ELSE IF i \in DOMAIN kwargs THEN <<kwargs[i]>>
    ELSE <<>>

\* get_value for a string key: the first alternative that returns, else
\* string.Formatter.get_value, kwargs[key]; <<>> stands for its KeyError.
get_value(key, kwargs, environ, doc) ==
    LET alts == Split(key)
        hits == {n \in 1..Len(alts) : Alternative(alts[n], kwargs, environ, doc) # <<>>}
    IN  IF hits # {}
        THEN Alternative(alts[CHOOSE n \in hits : \A m \in hits : n <= m],
                         kwargs, environ, doc)
        ELSE IF key \in DOMAIN kwargs THEN <<kwargs[key]>>
        ELSE <<>>

\* format_field with an empty format spec: str(value)
Render(value) == IF value.t = "int" THEN <<ToString(value.v)>> ELSE value.v

\* Format('{key}', **kwargs): the text, or the KeyError
Format(key, kwargs, environ, doc) ==
    LET got == get_value(key, kwargs, environ, doc)
    IN  IF got = <<>> THEN [raised |-> TRUE, text |-> <<>>]
        ELSE [raised |-> FALSE, text |-> Render(got[1])]

(***************************************************************************)
(* The calls of Format that are tried: placeholder keys, records, the      *)
(* environment and the identity document.                                  *)
(***************************************************************************)
K_abx == <<"a", "|", "b", "|", "'", "x", "'">>              \* a|b|'x'
K_abc == <<"a", "|", "b", "|", "c">>                        \* a|b|c
K_ax == <<"a", "|", "\"", "x", "\"">>                       \* a|"x"
K_open == <<"'", "x", "|", "b">>                            \* 'x|b
K_quote == <<"'">>                                          \* '
K_empty == <<"'", "'">>                                     \* ''
K_docker == <<"$", "docker_container">>                     \* $docker_container
K_docker_none == <<"$", "docker_container", "|", "'", "none", "'">>
K_unit == <<"$", "unit">>                                   \* $unit
K_region_b == <<"$", "region", "|", "b">>                   \* $region|b

FmtKeys == {K_abx, K_abc, K_ax, K_open, K_quote, K_empty, K_docker,
            K_docker_none, K_unit, K_region_b}

\* A mapping with the listed names, the ones with option <<>> left out.
Mapping(names, options) ==
    LET present == {n \in 1..Len(names) : options[n] # <<>>}
    IN  [f \in {names[n] : n \in present} |->
            options[CHOOSE n \in present : names[n] = f][1]]

Optional(values) == {<<>>} \cup {<<v>> : v \in values}

FmtFieldNames == <<<<"b">>, <<"c">>, F_SYSTEMD_UNIT, F_USER_UNIT,
                   F_CONTAINER_NAME, K_docker, K_quote>>

FmtRecords ==
    {Mapping(FmtFieldNames, <<b, c, su, uu, cn, dc, q>>) :
        b \in Optional({IntVal(5)}),
        c \in Optional({StrVal(<<"3">>)}),
        su \in Optional({StrVal(DOCKER_SERVICE),
                         StrVal(<<"sshd", "@", "1", ".", "service">>)}),
        uu \in Optional({StrVal(<<"u", ".", "service">>)}),
        cn \in Optional({StrVal(<<"web">>)}),
        dc \in Optional({StrVal(<<"hello">>)}),
        q \in Optional({StrVal(<<"q">>)})}

FmtEnvirons ==
    {Mapping(<<<<"docker_container">>>>, <<e>>) : e \in Optional({StrVal(<<"envval">>)})}

\* The identity document of the instance: its region, unless null.
FmtDocs ==
    {Mapping(<<<<"region">>>>, <<r>>) : r \in Optional({StrVal(<<"us-east-1">>)})}

FmtInputs ==
    {[key |-> k, kwargs |-> r, environ |-> e, doc |-> d] :
        k \in FmtKeys, r \in FmtRecords, e \in FmtEnvirons, d \in FmtDocs}

FmtInit ==
    /\ PipeIdle
    /\ GMIdle
    /\ fmtIn \in FmtInputs
    /\ fmtOut = <<>>

\* Format(template, **record)
FmtFormat ==
    /\ fmtIn # NoFmt
    /\ fmtOut = <<>>
    /\ fmtOut' = <<Format(fmtIn.key, fmtIn.kwargs, fmtIn.environ, fmtIn.doc)>>
    /\ UNCHANGED fmtIn
    /\ UNCHANGED pipeVars
    /\ UNCHANGED gmVars

FmtNext == FmtFormat

SpecFmt == FmtInit /\ [][FmtNext]_vars

(***************************************************************************)
(*                              The claims                                 *)
(***************************************************************************)
RECURSIVE Flatten(_)
Flatten(seqs) == IF seqs = <<>> THEN <<>> ELSE Head(seqs) \o Flatten(Tail(seqs))

Last(seq) == seq[Len(seq)]

StrictlyIncreasing(seq) == \A i, j \in 1..Len(seq) : i < j => seq[i] < seq[j]

IsPrefix(a, b) == Len(a) <= Len(b) /\ SubSeq(b, 1, Len(a)) = a

\* The retained records read so far, in source order, and their positions.
Filtered == SelectSeq(journal, retain_message)
FilteredPositions == Positions(Filtered)

\* The record of the journal at a position.
RecordAt(p) == journal[CHOOSE i \in 1..Len(journal) : journal[i].pos = p]

\* positions is a run of neighbours in the filtered source order
Contiguous(positions) ==
    \E k \in 0..Len(FilteredPositions) :
        /\ k + Len(positions) <= Len(FilteredPositions)
        /\ SubSeq(FilteredPositions, k + 1, k + Len(positions)) = positions

\* This step is a put_log_events call (Put is the one action that makes one).
PutStep == pc = "loop" /\ curKey \in DOMAIN tokens /\ lastEv'.op = "put_log_events"

FatalCode(code) ==
    code \notin {OK, THROTTLED, OPERATION_ABORTED, INVALID_TOKEN}

\* C1: the cursor file is written only in the step in which put_log_events
\* returns successfully for the chunk in hand, and what is written is the
\* position of the chunk's last record; a put that fails writes nothing.
C1_CheckpointOnlyAfterConfirmedPut ==
    [][ /\ (cursorFile' # cursorFile \/ saved' # saved) =>
              /\ PutStep
              /\ lastEv'.res = OK
              /\ lastEv'.batch = Positions(chunk)
              /\ cursorFile' = Last(chunk).pos
              /\ saved' = Append(saved, Last(chunk).pos)
              /\ confirmed' = Append(confirmed,
                                 [dest |-> curKey, recs |-> Positions(chunk)])
        /\ (PutStep /\ lastEv'.res # OK) =>
              /\ cursorFile' = cursorFile
              /\ confirmed' = confirmed
        /\ (PutStep /\ lastEv'.res = OK) => cursorFile' = Last(chunk).pos
      ]_vars

C1_Witness ==
    /\ lastEv.op = "put_log_events"
    /\ lastEv.res = OK
    /\ Len(lastEv.batch) >= 2
    /\ cursorFile = Last(lastEv.batch)
    /\ cursorFile # cursor

\* C2: every retained record read in this run whose position is at or
\* before the checkpoint has been part of a put-events call the sink
\* confirmed.
C2_CheckpointNeverSkips ==
    \A i \in 1..Len(journal) :
        (retain_message(journal[i]) /\ journal[i].pos <= cursorFile)
            => journal[i].pos \in acked

\* the checkpoint advanced past a dropped record and two confirmed batches,
\* after the sink had answered with a transient error
C2_Witness ==
    /\ Len(confirmed) >= 2
    /\ \E i \in 1..Len(journal) :
          ~retain_message(journal[i]) /\ journal[i].pos < cursorFile
    /\ cursorFile = Last(Last(confirmed).recs)

\* C3: a put-events error that is neither throttled, operation-aborted nor
\* invalid-token ends the run with that error and leaves the checkpoint as
\* it was; from then on nothing is submitted (the run takes no further
\* step).
C3_FatalPutEndsRun ==
    [][ /\ pc # "failed"
        /\ (PutStep /\ FatalCode(lastEv'.res)) =>
              /\ pc' = "failed"
              /\ err' = lastEv'.res
              /\ cursorFile' = cursorFile
              /\ confirmed' = confirmed
              /\ saved' = saved
      ]_vars

\* a fatal put after an earlier batch was confirmed, with a later batch or
\* a later run still waiting
C3_Witness ==
    /\ pc = "failed"
    /\ lastEv.op = "put_log_events"
    /\ err = OTHER_ERROR
    /\ confirmed # <<>>
    /\ cursorFile = Last(Last(confirmed).recs)
    /\ (pending # <<>> \/ Len(rest) > Len(chunk))

\* C4, as claimed: after N confirmed submissions the checkpoint is the
\* position of the last record of the N-th confirmed batch, and the values
\* the checkpoint takes in a run, the loaded one first, strictly increase.
C4_Original ==
    /\ Len(saved) = Len(confirmed)
    /\ \A n \in 1..Len(saved) : saved[n] = Last(confirmed[n].recs)
    /\ saved # <<>> => cursorFile = Last(saved)
    /\ StrictlyIncreasing((IF cursor = 0 THEN <<>> ELSE <<cursor>>) \o saved)

\* C5, as claimed: every batch group_messages yields is non-empty, has at
\* most 10 records, and its latest and earliest timestamps are less than
\* 23 hours apart.
C5_Original ==
    \A n \in 1..Len(gmOut) :
        /\ gmOut[n] # <<>>
        /\ Len(gmOut[n]) <= 10
        /\ \A i, j \in 1..Len(gmOut[n]) : gmOut[n][i].ts - gmOut[n][j].ts < 23

\* C6: the batches group_messages yields, concatenated in the order they
\* are yielded, are the input list: at every point together with what is
\* still to chunk, and on their own once the generator has returned.
C6_ConcatenationIsInput ==
    /\ Flatten(gmOut) \o gmRest = gmInput
    /\ gmDone => Flatten(gmOut) = gmInput

C6_Witness ==
    /\ gmDone
    /\ Len(gmInput) > maxlen
    /\ Len(gmOut) >= 2
    /\ Len(gmOut[1]) = maxlen

\* C7: the log_messages calls are the maximal runs of the filtered source:
\* each call holds records of one destination, its own; two successive
\* calls differ in destination; the calls, concatenated, are a prefix of
\* the filtered source; and every confirmed batch is a run of neighbours
\* of the filtered source with one destination.
C7_RunsAreMaximalAndConsecutive ==
    /\ \A n \in 1..Len(lmCalls) :
          /\ lmCalls[n].recs # <<>>
          /\ \A i \in 1..Len(lmCalls[n].recs) :
                KeyOf(RecordAt(lmCalls[n].recs[i])) = lmCalls[n].dest
    /\ \A n \in 1..(Len(lmCalls) - 1) : lmCalls[n].dest # lmCalls[n + 1].dest
    /\ IsPrefix(Flatten([n \in 1..Len(lmCalls) |-> lmCalls[n].recs]),
                FilteredPositions)
    /\ \A n \in 1..Len(confirmed) :
          /\ Contiguous(confirmed[n].recs)
          /\ \A i \in 1..Len(confirmed[n].recs) :
                KeyOf(RecordAt(confirmed[n].recs[i])) = confirmed[n].dest

\* destinations A, B, A: three calls
C7_Witness ==
    /\ Len(lmCalls) = 3
    /\ lmCalls[1].dest = lmCalls[3].dest
    /\ lmCalls[2].dest # lmCalls[1].dest
    /\ lmCalls[2].dest[1] = lmCalls[1].dest[1]

\* The positions confirmed for a destination, in call order.
DeliveredTo(dest) ==
    Flatten([n \in 1..Len(confirmed) |->
                IF confirmed[n].dest = dest THEN confirmed[n].recs ELSE <<>>])

\* C8: for every destination the records of its confirmed put-events
\* calls, concatenated in call order, are in source order.
C8_DeliveryInSourceOrder ==
    \A n \in 1..Len(confirmed) :
        StrictlyIncreasing(DeliveredTo(confirmed[n].dest))

\* one destination confirmed in two separate runs, another in between
C8_Witness ==
    /\ Len(confirmed) = 3
    /\ confirmed[1].dest = confirmed[3].dest
    /\ confirmed[2].dest # confirmed[1].dest

\* the message holds the words 'sequenceToken is: t'
SaysExpected(msg, t) ==
    \E i \in 1..Len(msg) :
        /\ i + 2 <= Len(msg)
        /\ msg[i] = "sequenceToken"
        /\ msg[i + 1] = "is:"
        /\ msg[i + 2] = t

\* C9: when the last sink call is a put answered invalid-token with a
\* message holding 'sequenceToken is: T', the next sink call is a put of
\* the same batch to the same stream, with T as its token, or with no
\* token when T is 'null'; no other call comes in between.
C9_RetryUsesGivenToken ==
    [][ \A t \in Tokens \cup {"null"} :
          ( /\ pc = "loop"
            /\ lastEv.op = "put_log_events"
            /\ lastEv.res = INVALID_TOKEN
            /\ SaysExpected(lastEv.msg, t) ) =>
              /\ lastEv'.op = "put_log_events"
              /\ lastEv'.dest = lastEv.dest
              /\ lastEv'.batch = lastEv.batch
              /\ lastEv'.kwargs = IF t = "null" THEN <<>> ELSE <<t>>
      ]_vars

\* a retry that followed 'sequenceToken is: null' was confirmed
C9_Witness ==
    /\ pc = "chunks"
    /\ recovery = "parsed"
    /\ lastEv.op = "put_log_events"
    /\ lastEv.res = OK
    /\ lastEv.kwargs = <<>>

\* C10: a put answered invalid-token with a message that holds no token
\* evicts the stream's cache entry; the next sink call is a
\* describe_log_streams for the stream; and the next put of the batch
\* comes after a lookup has returned and carries the token it returned.
C10_RetryAfterEvictionLooksUp ==
    [][ /\ ( /\ PutStep
             /\ lastEv'.res = INVALID_TOKEN
             /\ RegexSearch(lastEv'.msg) = <<>> ) =>
               /\ curKey \notin DOMAIN tokens'
               /\ pc' = "loop"
               /\ chunk' = chunk
        /\ ( /\ pc = "loop"
             /\ lastEv.op = "put_log_events"
             /\ lastEv.res = INVALID_TOKEN
             /\ RegexSearch(lastEv.msg) = <<>> ) =>
               /\ lastEv'.op = "describe_log_streams"
               /\ lastEv'.dest = curKey
        /\ ( /\ recovery = "evicted"
             /\ pc = "loop"
             /\ lastEv'.op = "put_log_events"
             /\ lastEv' # lastEv ) =>
               /\ lookup # <<>>
               /\ lastEv'.kwargs = PutKwargs(lookup[1])
               /\ lastEv'.batch = Positions(chunk)
      ]_vars

\* a retry that followed an eviction was confirmed with the token the
\* lookup found
C10_Witness ==
    /\ pc = "chunks"
    /\ recovery = "evicted"
    /\ lastEv.op = "put_log_events"
    /\ lastEv.res = OK
    /\ lastEv.kwargs = <<"T1">>

\* The step is a sink call made from inside the try block of _log_messages.
LoopCall == pc \in {"loop", "create_stream"}

Transient(code) == code \in {THROTTLED, OPERATION_ABORTED, INVALID_TOKEN}

\* C11: when put_log_events succeeds for a batch, after whatever retries,
\* the cache entry of the stream is the nextSequenceToken of that response;
\* it stays so until the next put to that stream, and that put, the first
\* submission of the following batch, carries it as its sequenceToken.
C11_CacheHoldsConfirmedToken ==
    [][ /\ (PutStep /\ lastEv'.res = OK) =>
              /\ curKey \in DOMAIN nextTok'
              /\ curKey \in DOMAIN tokens'
              /\ tokens'[curKey] = nextTok'[curKey]
        /\ \A k \in DOMAIN nextTok' :
              k \in DOMAIN tokens' /\ tokens'[k] = nextTok'[k]
        /\ (PutStep /\ curKey \in DOMAIN nextTok) =>
              /\ lastEv'.kwargs = <<nextTok[curKey]>>
              /\ lastEv'.batch # Last(confirmed).recs \/ Last(confirmed).dest # curKey
      ]_vars

\* the batch that follows a confirmed one to the same stream, another
\* stream having been served in between, has been submitted with the token
\* the cache kept
C11_Witness ==
    /\ Len(confirmed) = 2
    /\ confirmed[1].dest = curKey
    /\ confirmed[2].dest # curKey
    /\ lastEv.op = "put_log_events"
    /\ lastEv.dest = curKey
    /\ lastEv.res = THROTTLED
    /\ lastEv.kwargs = <<"T2">>
    /\ tokens[curKey] = "T2"

\* C12: the handling of a failed attempt sleeps once, for 1, when the error
\* is throttled and not at all for any other error; after a throttled or
\* an aborted put the next sink call is a put of the same batch to the same
\* stream with the same token.
C12_BackoffOnlyWhenThrottled ==
    [][ /\ LoopCall =>
              lastEv'.sleep = IF lastEv'.res = THROTTLED THEN 1 ELSE 0
        /\ ( /\ pc = "loop"
             /\ lastEv.op = "put_log_events"
             /\ lastEv.res \in {THROTTLED, OPERATION_ABORTED} ) =>
               /\ lastEv'.op = "put_log_events"
               /\ lastEv'.dest = lastEv.dest
               /\ lastEv'.batch = lastEv.batch
               /\ lastEv'.kwargs = lastEv.kwargs
      ]_vars

\* a put of a later batch was throttled, the wait was made and the retry
\* is due
C12_Witness ==
    /\ pc = "loop"
    /\ confirmed # <<>>
    /\ lastEv.op = "put_log_events"
    /\ lastEv.res = THROTTLED
    /\ lastEv.sleep = 1
    /\ lastEv.kwargs # <<>>
    /\ lastEv.batch = Positions(chunk)

\* C13, as claimed: whichever sink call is answered throttled,
\* operation-aborted or invalid-token, the run does not end.
C13_Original ==
    [][ ((LoopCall \/ lastEv' # lastEv) /\ Transient(lastEv'.res)) =>
            /\ pc' # "failed"
            /\ err' = ""
      ]_vars

\* C14: create_log_group and create_log_stream return normally on 'already
\* exists', the token cache as it was; on any other error they raise it:
\* out of create_log_group it ends the run, out of create_log_stream it
\* reaches the except clause of _log_messages and get_new_seq_token returns
\* nothing.
C14_CreateIgnoresAlreadyExists ==
    [][ /\ (lastEv' # lastEv /\ lastEv'.op = "create_log_group") =>
              IF lastEv'.res \in {OK, ALREADY_EXISTS}
              THEN /\ lastEv'.dest[1] \in handles'
                   /\ tokens' = tokens
                   /\ err' \in {"", NoKey}
              ELSE /\ lastEv'.dest[1] \notin handles'
                   /\ pc' = "failed"
                   /\ err' = lastEv'.res
        /\ pc = "create_stream" =>
              /\ lastEv'.op = "create_log_stream"
              /\ IF lastEv'.res \in {OK, ALREADY_EXISTS}
                 THEN /\ pc' = "assign"
                      /\ tokens' = tokens
                      /\ err' = ""
                 ELSE /\ pc' # "assign"
                      /\ lookup' = lookup
                      /\ tokens' = tokens
                      /\ \/ pc' = "failed" /\ err' = lastEv'.res
                         \/ pc' = "loop" /\ Transient(lastEv'.res)
      ]_vars

\* create_log_stream was answered 'already exists' while the cache held the
\* token of another stream
C14_Witness ==
    /\ pc = "assign"
    /\ lastEv.op = "create_log_stream"
    /\ lastEv.res = ALREADY_EXISTS
    /\ tokens # NoTokens
    /\ curKey \notin DOMAIN tokens

\* C15: in the retry loop the next sink call is describe_log_streams if and
\* only if the stream has no cache entry; with an entry, be it None, it is
\* the put, with the cached token; and an entry leaves the cache only by an
\* invalid-token answer without a token to that stream's put.
C15_LookupOnlyOnCacheMiss ==
    [][ /\ pc = "loop" =>
              /\ (lastEv'.op = "describe_log_streams") <=> (curKey \notin DOMAIN tokens)
              /\ curKey \in DOMAIN tokens =>
                    /\ lastEv'.op = "put_log_events"
                    /\ lastEv'.kwargs =
                          IF tokens[curKey] = None THEN <<>> ELSE <<tokens[curKey]>>
        /\ pc \in {"create_stream", "assign"} => curKey \notin DOMAIN tokens
        /\ \A k \in DOMAIN tokens :
              k \notin DOMAIN tokens' =>
                 /\ PutStep
                 /\ k = curKey
                 /\ lastEv'.res = INVALID_TOKEN
                 /\ RegexSearch(lastEv'.msg) = <<>>
      ]_vars

\* a put made with the cached None failed and the retry is due: the entry
\* is still there, so no lookup will be made
C15_Witness ==
    /\ pc = "loop"
    /\ lastEv.op = "put_log_events"
    /\ lastEv.res = OPERATION_ABORTED
    /\ lastEv.kwargs = <<>>
    /\ curKey \in DOMAIN tokens
    /\ tokens[curKey] = None
    /\ confirmed # <<>>

\* C16: a describe_log_streams answer whose first stream has exactly the
\* requested name makes get_new_seq_token return that stream's token, None
\* when it has none, with no create_log_stream call; an empty answer or a
\* stream of another name is followed by create_log_stream for the
\* requested name and the return of None; what was returned is cached.
C16_LookupCachesFoundOrCreates ==
    [][ /\ (pc = "loop" /\ curKey \notin DOMAIN tokens /\ lastEv'.res = OK) =>
              /\ lastEv'.op = "describe_log_streams"
              /\ lastEv'.dest = curKey
              /\ tokens' = tokens
              /\ IF /\ lastEv'.streams # <<>>
                    /\ lastEv'.streams[1].name = curKey[2]
                 THEN /\ pc' = "assign"
                      /\ lookup' = <<lastEv'.streams[1].tok>>
                 ELSE pc' = "create_stream"
        /\ pc = "create_stream" =>
              /\ lastEv.op = "describe_log_streams"
              /\ lastEv.streams = <<>> \/ lastEv.streams[1].name # curKey[2]
              /\ lastEv'.op = "create_log_stream"
              /\ lastEv'.dest = curKey
              /\ lastEv'.res \in {OK, ALREADY_EXISTS} =>
                    (pc' = "assign" /\ lookup' = <<None>>)
        /\ pc = "assign" =>
              /\ lastEv' = lastEv
              /\ pc' = "loop"
              /\ DOMAIN tokens' = DOMAIN tokens \cup {curKey}
              /\ tokens'[curKey] = lookup[1]
              /\ \A k \in DOMAIN tokens : tokens'[k] = tokens[k]
              /\ lastEv.op = "describe_log_streams" =>
                    lookup[1] = lastEv.streams[1].tok
              /\ lastEv.op = "create_log_stream" => lookup[1] = None
      ]_vars

\* the stream was found without an upload token: None is cached and no
\* create_log_stream call was made
C16_Witness ==
    /\ pc = "loop"
    /\ lastEv.op = "describe_log_streams"
    /\ lastEv.streams # <<>>
    /\ lastEv.streams[1].name = curKey[2]
    /\ lastEv.streams[1].tok = None
    /\ curKey \in DOMAIN tokens
    /\ tokens[curKey] = None

\* The record the reader yielded in this step.
ReadStep == journal' # journal

\* C17: create_log_group is called for a name only while the cache of
\* log_group_client holds no handle for it, so never again once it has
\* succeeded; the cache only grows; resolving a name it holds makes no
\* sink call and leaves every token of the handle in place; every cached
\* token belongs to the handle of its own group.
C17_OneHandlePerGroup ==
    [][ /\ (lastEv' # lastEv /\ lastEv'.op = "create_log_group") =>
              /\ ReadStep
              /\ lastEv'.dest[1] \notin handles
              /\ lastEv'.dest[1] = Last(journal').g
        /\ handles \subseteq handles'
        /\ \A k \in DOMAIN tokens' : k[1] \in handles'
        /\ (ReadStep /\ Last(journal').g \in handles) =>
              /\ lastEv' = lastEv
              /\ handles' = handles
              /\ tokens' = tokens
        /\ ReadStep => tokens' = tokens
      ]_vars

\* two handles, each with a token of its own for the stream s1, and the
\* first group resolved again after the second
C17_Witness ==
    /\ handles = {"g1", "g2"}
    /\ Len(lmCalls) = 3
    /\ lmCalls[1].dest = lmCalls[3].dest
    /\ lmCalls[2].dest[1] # lmCalls[1].dest[1]
    /\ lmCalls[2].dest[2] = lmCalls[1].dest[2]
    /\ Len(confirmed) = 2
    /\ tokens[lmCalls[1].dest] # tokens[lmCalls[2].dest]

\* C18, as claimed: with a checkpoint at startup no record at or before the
\* checkpointed position is read, and none is submitted.
C18_Original ==
    cursor # 0 =>
        /\ \A i \in 1..Len(journal) : journal[i].pos > cursor
        /\ \A n \in 1..Len(confirmed) :
              \A i \in 1..Len(confirmed[n].recs) : confirmed[n].recs[i] > cursor

\* The positions that reached destination resolution: those in a group
\* being collected, read ahead, or passed to log_messages.
RoutedPositions ==
    {curRun[i].pos : i \in 1..Len(curRun)}
        \cup {pending[i].pos : i \in 1..Len(pending)}
        \cup UNION {{lmCalls[n].recs[i] : i \in 1..Len(lmCalls[n].recs)} :
                       n \in 1..Len(lmCalls)}

ConfirmedPositions ==
    UNION {{confirmed[n].recs[i] : i \in 1..Len(confirmed[n].recs)} :
              n \in 1..Len(confirmed)}

\* C19: a record is kept exactly when now minus its timestamp is below 14
\* days (336 hours): a record 14 days old or older is in no group, no
\* log_messages call and no put; a younger one is in a group or a
\* log_messages call, unless resolving it ended the run.
C19_RetentionWindow ==
    \A i \in 1..Len(journal) :
        LET m == journal[i]
        IN  /\ retain_message(m) <=> (Now - m.ts < 14 * 24)
            /\ (Now - m.ts >= 14 * 24) =>
                  /\ m.pos \notin RoutedPositions
                  /\ m.pos \notin ConfirmedPositions
            /\ (Now - m.ts < 14 * 24) =>
                  \/ m.pos \in RoutedPositions
                  \/ pc = "failed" /\ i = Len(journal)

\* a record exactly 14 days old was read and passed over, and a record one
\* day old read after it was delivered
C19_Witness ==
    \E i, j \in 1..Len(journal) :
        /\ i < j
        /\ Now - journal[i].ts = 14 * 24
        /\ Now - journal[j].ts = 24
        /\ journal[j].pos \in ConfirmedPositions

\* C20: a record the filter drops changes nothing but the reader's
\* position: no handle, no sink call, no failure, and the group being
\* collected stays open; after every record read and every log_messages
\* call, the calls made hold retained records only, each once, in source
\* order, and no two successive calls have the same destination.
C20_FilterBeforeRouting ==
    [][ /\ (ReadStep /\ ~retain_message(Last(journal'))) =>
              /\ handles' = handles
              /\ lastEv' = lastEv
              /\ tokens' = tokens
              /\ pc' = pc
              /\ err' = err
              /\ curKey' = curKey
              /\ curRun' = curRun
              /\ pending' = pending
              /\ lmCalls' = lmCalls
        /\ (ReadStep \/ lmCalls' # lmCalls) =>
              LET calls == Flatten([n \in 1..Len(lmCalls') |-> lmCalls'[n].recs])
              IN  /\ StrictlyIncreasing(calls)
                  /\ \A i \in 1..Len(calls) :
                        \E k \in 1..Len(journal') :
                           /\ journal'[k].pos = calls[i]
                           /\ retain_message(journal'[k])
                  /\ IsPrefix(calls, FilteredPositions')
                  /\ \A n \in 1..(Len(lmCalls') - 1) :
                        lmCalls'[n].dest # lmCalls'[n + 1].dest
      ]_vars

\* two records of one destination with a dropped record between them went
\* to one log_messages call
C20_Witness ==
    /\ Len(journal) = 3
    /\ ~retain_message(journal[2])
    /\ Len(lmCalls) = 1
    /\ lmCalls[1].recs = <<journal[1].pos, journal[3].pos>>
    /\ handles = {"g1"}

\* C21: a retained record with a group or stream template that does not
\* resolve is the last record the run reads: the run has ended with the
\* KeyError (or with the error of the create_log_group call its group
\* needed first); the record is in no group, no log_messages call and no
\* put, and every checkpoint written in the run is before its position.
C21_UnroutableRecordEndsRun ==
    \A i \in 1..Len(journal) :
        LET m == journal[i]
        IN  (retain_message(m) /\ (m.g = NoKey \/ m.s = NoKey)) =>
               /\ pc = "failed"
               /\ i = Len(journal)
               /\ \/ err = NoKey
                  \/ /\ lastEv.op = "create_log_group"
                     /\ lastEv.dest = <<m.g>>
                     /\ err = lastEv.res
               /\ m.pos \notin RoutedPositions
               /\ m.pos \notin ConfirmedPositions
               /\ \A n \in 1..Len(saved) : saved[n] < m.pos
               /\ cursorFile = cursor \/ cursorFile < m.pos

\* the stream template of the third record did not resolve, after a batch
\* had been confirmed and with a group collected but not yet delivered
C21_Witness ==
    /\ pc = "failed"
    /\ err = NoKey
    /\ Len(journal) = 3
    /\ journal[3].s = NoKey
    /\ confirmed # <<>>
    /\ curRun # <<>>

\* C22, as claimed: the sequence of records does not end; when the reader
\* has no further entry the iteration waits, and the run does not return.
C22_Original ==
    /\ ~exhausted
    /\ pc # "done"

\* The alternatives of the key Format was called with.
FmtAlts == Split(fmtIn.key)

\* An alternative that is a quoted literal or names a field of the record.
Resolvable(i) ==
    \/ /\ Len(i) >= 2
       /\ i[1] \in {"'", "\""}
       /\ i[Len(i)] = i[1]
    \/ i \in DOMAIN fmtIn.kwargs

\* The text such an alternative stands for.
TextOf(i) ==
    IF i \in DOMAIN fmtIn.kwargs /\ ~(Len(i) >= 2 /\ i[1] \in {"'", "\""} /\ i[Len(i)] = i[1])
    THEN IF fmtIn.kwargs[i].t = "int" THEN <<ToString(fmtIn.kwargs[i].v)>>
         ELSE fmtIn.kwargs[i].v
    ELSE SubSeq(i, 2, Len(i) - 1)

NoSpecial == \A n \in 1..Len(FmtAlts) : FmtAlts[n] = <<>> \/ FmtAlts[n][1] # "$"

\* C23: for a key without $-alternatives Format gives the text of the
\* first alternative, from the left, that is a quoted literal (its text
\* without the quotes) or names a field of the record, and raises KeyError
\* when there is none; a|b|'x' gives 5 for a record with b = 5 and x for a
\* record with neither a nor b.
C23_FirstResolvableAlternative ==
    fmtOut # <<>> =>
        /\ NoSpecial =>
              LET hits == {n \in 1..Len(FmtAlts) : Resolvable(FmtAlts[n])}
              IN  IF hits = {} THEN fmtOut[1].raised
                  ELSE /\ ~fmtOut[1].raised
                       /\ fmtOut[1].text =
                             TextOf(FmtAlts[CHOOSE n \in hits : \A m \in hits : n <= m])
        /\ (fmtIn.key = K_abx /\ <<"b">> \in DOMAIN fmtIn.kwargs) =>
              fmtOut[1] = [raised |-> FALSE, text |-> <<"5">>]
        /\ (fmtIn.key = K_abx /\ <<"b">> \notin DOMAIN fmtIn.kwargs) =>
              fmtOut[1] = [raised |-> FALSE, text |-> <<"x">>]

\* a|b|c was formatted for a record that has c but neither a nor b
C23_Witness ==
    /\ fmtOut # <<>>
    /\ fmtIn.key = K_abc
    /\ <<"b">> \notin DOMAIN fmtIn.kwargs
    /\ <<"c">> \in DOMAIN fmtIn.kwargs
    /\ fmtOut[1].text = <<"3">>

\* C24, as claimed: $docker_container gives the record's CONTAINER_NAME
\* as it is when _SYSTEMD_UNIT is docker.service and CONTAINER_NAME is
\* present, and only then; otherwise the environment variable
\* docker_container, then the record field $docker_container.
C24_Original ==
    (fmtOut # <<>> /\ fmtIn.key = K_docker) =>
        LET kw == fmtIn.kwargs
        IN  IF /\ F_CONTAINER_NAME \in DOMAIN kw
               /\ F_SYSTEMD_UNIT \in DOMAIN kw
               /\ kw[F_SYSTEMD_UNIT].v = DOCKER_SERVICE
            THEN fmtOut[1] = [raised |-> FALSE, text |-> kw[F_CONTAINER_NAME].v]
            ELSE IF <<"docker_container">> \in DOMAIN fmtIn.environ
            THEN fmtOut[1] =
                    [raised |-> FALSE, text |-> fmtIn.environ[<<"docker_container">>].v]
            ELSE IF K_docker \in DOMAIN kw
            THEN fmtOut[1] = [raised |-> FALSE, text |-> kw[K_docker].v]
            ELSE fmtOut[1].raised

\* The record that follows the n-th batch in the list given to
\* group_messages, <<>> when the batch ends the list.
FollowerOf(n) ==
    IF n < Len(gmOut) THEN <<gmOut[n + 1][1]>>
    ELSE IF gmRest # <<>> THEN <<gmRest[1]>>
    ELSE <<>>

BatchSizes == [n \in 1..Len(gmOut) |-> Len(gmOut[n])]

\* C25: a batch that is followed by a record holds exactly 10 records, or
\* the record that follows is 23 hours or more after the batch's first
\* record; within a batch every record is less than 23 hours after the
\* first and there are at most 10; 4 records 14 days old followed by 15
\* records of this hour give batches of 4, 10 and 5.
C25_ChunkingIsGreedy ==
    /\ \A n \in 1..Len(gmOut) :
          /\ FollowerOf(n) # <<>> =>
                \/ Len(gmOut[n]) = 10
                \/ FollowerOf(n)[1].ts - gmOut[n][1].ts >= 23
          /\ Len(gmOut[n]) \in 1..10
          /\ \A i \in 1..Len(gmOut[n]) : gmOut[n][i].ts - gmOut[n][1].ts < 23
    /\ (gmDone /\ gmInput = GMBlock(4, 15)) => BatchSizes = <<4, 10, 5>>

C25_Witness ==
    /\ gmDone
    /\ Len(gmInput) = 19
    /\ gmInput[4].ts = Now - 14 * 24
    /\ gmInput[5].ts = Now
    /\ BatchSizes = <<4, 10, 5>>

\* C26: a cached token changes only in a put_log_events step for its own
\* stream, to the nextSequenceToken of a successful answer or to the value
\* parsed from an invalid-token message; an entry leaves the cache only
\* when an invalid-token message cannot be parsed; a throttled or aborted
\* call inside the retry loop leaves the token cache and the cursor file
\* as they were.
C26_TokenChangesOnlyBySuccessOrRecovery ==
    [][/\ \A k \in DOMAIN tokens :
             /\ (k \in DOMAIN tokens' /\ tokens'[k] # tokens[k]) =>
                   /\ PutStep
                   /\ k = curKey
                   /\ \/ /\ lastEv'.res = OK
                         /\ tokens'[k] = nextTok'[k]
                         /\ Last(confirmed').recs = lastEv'.batch
                      \/ /\ lastEv'.res = INVALID_TOKEN
                         /\ RegexSearch(lastEv'.msg) # <<>>
                         /\ tokens'[k] = ParsedToken(RegexSearch(lastEv'.msg)[1])
             /\ k \notin DOMAIN tokens' =>
                   /\ PutStep
                   /\ k = curKey
                   /\ lastEv'.res = INVALID_TOKEN
                   /\ RegexSearch(lastEv'.msg) = <<>>
       /\ (LoopCall /\ lastEv'.res \in {THROTTLED, OPERATION_ABORTED}) =>
             /\ tokens' = tokens
             /\ cursorFile' = cursorFile
             /\ confirmed' = confirmed
      ]_vars

\* a throttled put_log_events for a stream whose cached token came from an
\* earlier confirmed batch
C26_Witness ==
    /\ pc = "loop"
    /\ lastEv.op = "put_log_events"
    /\ lastEv.res = THROTTLED
    /\ lastEv.kwargs # <<>>
    /\ Cached(tokens, curKey)
    /\ tokens[curKey] = lastEv.kwargs[1]
    /\ confirmed # <<>>
    /\ Last(confirmed).dest = curKey
    /\ cursorFile = Last(Last(confirmed).recs)

\* _log_messages is inside its while loop for the current chunk.
InLoop == pc \in {"loop", "create_stream", "assign"}

\* The last sink call of the loop was answered by an error that is retried.
ErrState == pc = "loop" /\ Transient(lastEv.res)

\* The last sink call was an accepted put_log_events.
Accepted == lastEv.op = "put_log_events" /\ lastEv.res = OK

\* _log_messages has returned after the put of its chunk was accepted: the
\* chunk is among the confirmed batches once and the cursor file holds its
\* last position.
ReturnedConfirmed ==
    /\ pc = "chunks"
    /\ Accepted
    /\ lastEv.batch # <<>>
    /\ cursorFile = Last(lastEv.batch)
    /\ Cardinality({i \in 1..Len(confirmed) :
                       confirmed[i].recs = lastEv.batch}) = 1

\* C27 (steps): an error that is retried keeps _log_messages in its loop;
\* inside the loop the chunk, the confirmed batches and the cursor file
\* stay as they are and every put carries the same chunk; the loop is left
\* only by the accepted put, which confirms the chunk once and saves its
\* last position, or by an error that is raised.
C27_LoopSteps ==
    [][InLoop =>
          /\ (LoopCall /\ Transient(lastEv'.res)) => pc' = "loop"
          /\ InLoop' =>
                /\ chunk' = chunk
                /\ confirmed' = confirmed
                /\ cursorFile' = cursorFile
                /\ lmCalls' = lmCalls
                /\ lastEv'.op = "put_log_events" =>
                      lastEv'.batch = Positions(chunk)
          /\ ~InLoop' =>
                \/ /\ pc' = "failed"
                   /\ FatalCode(lastEv'.res)
                   /\ cursorFile' = cursorFile
                   /\ confirmed' = confirmed
                \/ /\ ReturnedConfirmed'
                   /\ lastEv'.batch = Positions(chunk)
                   /\ confirmed' = Append(confirmed, [dest |-> curKey,
                                                      recs |-> Positions(chunk)])
      ]_vars

\* C27 (finitely many errors): when from some point on no retried error is
\* answered and no error is raised, every _log_messages call returns with
\* its chunk confirmed once and the cursor file at its last position.
C27_FiniteErrorsReturn ==
    ((<>[]~ErrState) /\ [](pc # "failed")) => [](InLoop => <>ReturnedConfirmed)

\* C27 (errors forever): when after a retried error no put is ever
\* accepted and no error is ever raised, _log_messages stays in its loop
\* for ever.
C27_ErrorsForeverStay ==
    []((ErrState /\ [](~Accepted /\ pc # "failed")) => []InLoop)

\* C27: delivery of one chunk retries without bound.
C27_RetriesWithoutBound ==
    /\ C27_LoopSteps
    /\ C27_FiniteErrorsReturn
    /\ C27_ErrorsForeverStay

\* a chunk that met an invalid-token answer has been accepted on a retry
C27_Witness ==
    /\ ReturnedConfirmed
    /\ recovery = "parsed"
    /\ Len(confirmed) = 1

\* C28: create_log_group is never called while a run that has been
\* collected is still undelivered: every sink call of a run is made
\* before any sink call of the run that follows it.
C28_Original ==
    [][(ReadStep /\ lastEv' # lastEv /\ lastEv'.op = "create_log_group") =>
          curRun = <<>>
      ]_vars

\* C29: when a sink call of the retry loop is answered invalid-token with
\* a message that holds no token, the stream has a cache entry and the
\* handler evicts it and retries; the loop ends with an error only when a
\* sink call answered a fatal error, and that error is the one propagated.
C29_Original ==
    [][/\ ( /\ LoopCall
            /\ lastEv'.res = INVALID_TOKEN
            /\ RegexSearch(lastEv'.msg) = <<>> ) =>
              /\ Cached(tokens, curKey)
              /\ ~Cached(tokens', curKey)
              /\ pc' = "loop"
       /\ (InLoop /\ pc' = "failed") =>
              /\ FatalCode(lastEv'.res)
              /\ err' = lastEv'.res
      ]_vars

====
